---- MODULE Spec2Model ----
(***************************************************************************)
(* LegacyWeights::ConvBlock of src/neural/network_legacy.cc: construction  *)
(* from the flattened fields of a serialized block, the non-destructive    *)
(* accessors GetInvertedStddev / GetOffsetMeans, and the destructive       *)
(* batch-norm fold FoldBN.                                                 *)
(*                                                                         *)
(* Numbers.  The code computes in float; the folding identities are stated *)
(* in exact arithmetic, so a value is an exact real of the field Q[kappa], *)
(* kappa = 1/sqrt(1 + kEpsilon): the record [a, b] stands for a + b*kappa  *)
(* with a, b rationals <<numerator, denominator>> in lowest terms.  kappa  *)
(* is what 1/sqrt(x + kEpsilon) yields on the value 1.0 that FoldBN stores *)
(* into bn_stddivs; it is not 1.                                           *)
(*                                                                         *)
(* Undefined behaviour.  An index past the end of a vector and the integer *)
(* division by zero of FoldBN are undefined.  The outcomes modelled are:   *)
(* the call aborts the process (pc = "fault"), or it returns, a read past  *)
(* the end having yielded an arbitrary value (one of Garbage) and a write  *)
(* past the end having landed in spare capacity, outside the vector's      *)
(* size (pc = "undefined").  Nothing is modelled after either: the rest of *)
(* such an execution has no defined behaviour.                             *)
(***************************************************************************)
EXTENDS Integers, Sequences, FiniteSets, TLC

VARIABLES pb, pc, block, ret, last, folds

vars == <<pb, pc, block, ret, last, folds>>

(* ------------------------------ bounds --------------------------------- *)
MaxN == 2
MaxW == 4
MaxFilter == 2
MaxFolds == 2

(* --------------------------- exact numbers ----------------------------- *)
Abs(n) == IF n < 0 THEN -n ELSE n

RECURSIVE GCD(_, _)
GCD(m, n) == IF n = 0 THEN m ELSE GCD(n, m % n)

Rat(n, d) ==
  LET s == IF d < 0 THEN -1 ELSE 1
      g == GCD(Abs(n), Abs(d))
  IN  <<(s * n) \div g, (s * d) \div g>>

RAdd(x, y) ==
  LET g == GCD(x[2], y[2])
      l == (x[2] \div g) * y[2]
  IN  Rat(x[1] * (l \div x[2]) + y[1] * (l \div y[2]), l)

RNeg(x) == <<-x[1], x[2]>>

RMul(x, y) ==
  LET g1 == GCD(Abs(x[1]), y[2])
      g2 == GCD(Abs(y[1]), x[2])
  IN  Rat((x[1] \div g1) * (y[1] \div g2), (x[2] \div g2) * (y[2] \div g1))

kEpsilonInv == 100000

\* kappa * kappa = 1 / (1 + kEpsilon)
KappaSq == Rat(kEpsilonInv, kEpsilonInv + 1)

Q(n, d) == [a |-> Rat(n, d), b |-> Rat(0, 1)]
Zero == Q(0, 1)
One == Q(1, 1)
Kappa == [a |-> Rat(0, 1), b |-> Rat(1, 1)]
kEpsilon == Q(1, kEpsilonInv)

Add(x, y) == [a |-> RAdd(x.a, y.a), b |-> RAdd(x.b, y.b)]
Neg(x) == [a |-> RNeg(x.a), b |-> RNeg(x.b)]
Sub(x, y) == Add(x, Neg(y))
Mul(x, y) ==
  [a |-> RAdd(RMul(x.a, y.a), RMul(KappaSq, RMul(x.b, y.b))),
   b |-> RAdd(RMul(x.a, y.b), RMul(x.b, y.a))]

(* ------------------------------ vectors -------------------------------- *)
Min(m, n) == IF m < n THEN m ELSE n
Max(m, n) == IF m < n THEN n ELSE m

Fill(n, v) == [i \in 1..n |-> v]

\* vec seen through its spare capacity: positions past the end hold g.
Pad(vec, n, g) == [i \in 1..Max(n, Len(vec)) |-> IF i <= Len(vec) THEN vec[i] ELSE g]

\* What the vector holds: the first n elements, its size being unchanged.
Cut(vec, n) == [i \in 1..n |-> vec[i]]

At0(vec, i) == vec[i + 1]

(* ------------------------- serialized inputs --------------------------- *)
Fields == {"weights", "biases", "bn_gammas", "bn_betas", "bn_means", "bn_stddivs"}

\* The contents of a field, by position (period 3).  Position 1 holds the
\* single-channel example of the documentation: weight 2, bias 1, gamma 3,
\* beta 0.5, mean 4 and a stddiv v with v + kEpsilon = 9.  Every bn_stddivs
\* value v has v + kEpsilon a rational square.
FieldValue(f, i) ==
  LET r == i % 3
      Pick(x, y, z) == IF r = 1 THEN x ELSE IF r = 2 THEN y ELSE z
  IN  CASE f = "weights" -> Pick(Q(2, 1), Q(-1, 1), Q(1, 2))
        [] f = "biases" -> Pick(Q(1, 1), Q(2, 1), Q(0, 1))
        [] f = "bn_gammas" -> Pick(Q(3, 1), Q(2, 1), Q(-1, 1))
        [] f = "bn_betas" -> Pick(Q(1, 2), Q(1, 1), Q(-2, 1))
        [] f = "bn_means" -> Pick(Q(4, 1), Q(-1, 1), Q(3, 1))
        [] f = "bn_stddivs" -> Pick(Sub(Q(9, 1), kEpsilon), Sub(Q(1, 4), kEpsilon),
                                    Sub(Q(1, 1), kEpsilon))

FieldVector(f, n) == [i \in 1..n |-> FieldValue(f, i)]

\* The six vectors LayerAdapter(...).as_vector() yields for one serialized
\* block: any field may be empty, and no length is tied to another.
Serialized ==
  { [f \in Fields |-> FieldVector(f, len[f])] :
      len \in { l \in [Fields -> 0..Max(MaxN, MaxW)] :
                  /\ l["weights"] <= MaxW
                  /\ \A f \in Fields \ {"weights"} : l[f] <= MaxN } }

(* ------------------------- 1 / sqrt(x + kEpsilon) ---------------------- *)
\* The values bn_stddivs holds: the serialized ones, and the 1.0f FoldBN stores.
StddivValues == {One} \cup {FieldValue("bn_stddivs", i) : i \in 1..3}

\* The positive values 1/sqrt(x + kEpsilon) takes on them.
InvSqrtRange == {Q(1, 3), One, Q(2, 1), Kappa}

\* 1.0f / std::sqrt(x + kEpsilon): the positive r with r * r * (x + kEpsilon) = 1.
InvSqrtOn ==
  [x \in StddivValues |->
     CHOOSE r \in InvSqrtRange : Mul(Mul(r, r), Add(x, kEpsilon)) = One]

InvSqrt(x) == InvSqrtOn[x]

\* What a read past the end of a vector may yield.
Garbage == {Q(7, 1), Q(-3, 2)}

(* ----------------------------- constructor ----------------------------- *)
EmptyBlock == [f \in Fields |-> <<>>]

\* if (bn_betas.size() == 0): one 0.0f appended to bn_betas and one 1.0f
\* appended to bn_gammas for every element of bn_means.
DefaultBetas(bn_betas, bn_means) ==
  IF Len(bn_betas) = 0 THEN bn_betas \o Fill(Len(bn_means), Zero) ELSE bn_betas

DefaultGammas(bn_gammas, bn_betas, bn_means) ==
  IF Len(bn_betas) = 0 THEN bn_gammas \o Fill(Len(bn_means), One) ELSE bn_gammas

\* Slip: the loop runs to biases.size(), which is 0, and appends nothing.
DefaultBiases_LoopOverBiases(biases, bn_means) ==
  IF Len(biases) = 0 THEN biases \o Fill(Len(biases), Zero) ELSE biases

\* if (biases.size() == 0): one 0.0f appended for every element of bn_means.
DefaultBiases(biases, bn_means) ==
  IF Len(biases) = 0 THEN biases \o Fill(Len(bn_means), Zero) ELSE biases

ConvBlock(p) ==
  [weights |-> p.weights,
   biases |-> DefaultBiases(p.biases, p.bn_means),
   bn_gammas |-> DefaultGammas(p.bn_gammas, p.bn_betas, p.bn_means),
   bn_betas |-> DefaultBetas(p.bn_betas, p.bn_means),
   bn_means |-> p.bn_means,
   bn_stddivs |-> p.bn_stddivs]

(* ------------------------------ accessors ------------------------------ *)
InvertVector(vec) == [i \in 1..Len(vec) |-> InvSqrt(vec[i])]

\* Slip: the operands of std::minus swapped.
OffsetVector_Swapped(means, biases) ==
  [i \in 1..Len(means) |-> Sub(biases[i], means[i])]

\* std::transform over means, reading biases at the same positions.
OffsetVector(means, biases) == [i \in 1..Len(means) |-> Sub(means[i], biases[i])]

\* Slip: InvertVector applied to the member, as InvertStddev() does.
GetInvertedStddev_InPlace(b) ==
  [self |-> [b EXCEPT !.bn_stddivs = InvertVector(b.bn_stddivs)],
   ret |-> InvertVector(b.bn_stddivs)]

\* The object after the call (self) and the vector returned (ret).
GetInvertedStddev(b) ==
  [self |-> b, ret |-> InvertVector(b.bn_stddivs)]

GetOffsetMeans(b, g) ==
  [self |-> b, ret |-> OffsetVector(b.bn_means, Pad(b.biases, Len(b.bn_means), g))]

\* OffsetVector reads biases past its end.
GetOffsetMeansUndefined(b) == Len(b.biases) < Len(b.bn_means)

(* -------------------------------- FoldBN ------------------------------- *)
\* Slip: the variance is not folded into gamma.
FoldedGamma_Unscaled(gamma, stddiv) == gamma

\* bn_gammas[i] *= 1.0f / std::sqrt(bn_stddivs[i] + epsilon)
FoldedGamma(gamma, stddiv) == Mul(gamma, InvSqrt(stddiv))

\* Slip: the sign of gamma dropped.
FoldedBias_Plus(gamma, mean, beta) == Add(Mul(gamma, mean), beta)

\* biases[o] = -bn_gammas[o] * bn_means[o] + bn_betas[o]
FoldedBias(gamma, mean, beta) == Add(Mul(Neg(gamma), mean), beta)

\* weights.size() / (outputs * spatialSize); a zero divisor is undefined, and
\* a run that goes on then has outputs = 0 or spatialSize = 0, so that no
\* iteration of the loops reads inputs: 0 stands for whatever it holds.
Inputs(nweights, outputs, spatialSize) ==
  IF outputs * spatialSize = 0 THEN 0 ELSE nweights \div (outputs * spatialSize)

\* The output channels o whose loop body multiplies weights[j] (j from 0).
Scaling(j, outputs, inputs, spatialSize) ==
  { o \in 0..(outputs - 1) :
      \E c \in 0..(inputs - 1), i \in 0..(spatialSize - 1) :
        j = o * inputs * spatialSize + c * spatialSize + i }

ScaledWeights(weights, gammas, outputs, inputs, spatialSize) ==
  [j1 \in 1..Len(weights) |->
     LET os == Scaling(j1 - 1, outputs, inputs, spatialSize)
     IN  IF os = {} THEN weights[j1]
         ELSE Mul(weights[j1], At0(gammas, CHOOSE o \in os : TRUE))]

FoldBN(b, filterSize, g) ==
  LET n == Len(b.bn_stddivs)
      outputs == Len(b.biases)
      cap == Max(n, outputs)
      gam0 == Pad(b.bn_gammas, cap, g)
      mean0 == Pad(b.bn_means, cap, g)
      bias0 == Pad(b.biases, cap, g)
      beta0 == Pad(b.bn_betas, cap, g)
      \* Variance to gamma.
      gam1 == [i \in DOMAIN gam0 |->
                 IF i <= n THEN FoldedGamma(gam0[i], b.bn_stddivs[i]) ELSE gam0[i]]
      std1 == [i \in 1..n |-> One]
      mean1 == [i \in DOMAIN mean0 |->
                  IF i <= n THEN Sub(mean0[i], bias0[i]) ELSE mean0[i]]
      bias1 == [i \in DOMAIN bias0 |-> IF i <= n THEN Zero ELSE bias0[i]]
      spatialSize == filterSize * filterSize
      inputs == Inputs(Len(b.weights), outputs, spatialSize)
      bias2 == [o \in DOMAIN bias1 |->
                  IF o <= outputs THEN FoldedBias(gam1[o], mean1[o], beta0[o])
                  ELSE bias1[o]]
      mean2 == [o \in DOMAIN mean1 |-> IF o <= outputs THEN Zero ELSE mean1[o]]
      beta2 == [o \in DOMAIN beta0 |-> IF o <= outputs THEN Zero ELSE beta0[o]]
  IN  [weights |-> ScaledWeights(b.weights, gam1, outputs, inputs, spatialSize),
       biases |-> Cut(bias2, Len(b.biases)),
       bn_gammas |-> Cut(gam1, Len(b.bn_gammas)),
       bn_betas |-> Cut(beta2, Len(b.bn_betas)),
       bn_means |-> Cut(mean2, Len(b.bn_means)),
       bn_stddivs |-> std1]

\* An index past the end of a vector in either loop.
FoldBNOutOfBounds(b) ==
  \/ Len(b.bn_stddivs) > Len(b.bn_gammas)
  \/ Len(b.bn_stddivs) > Len(b.bn_means)
  \/ Len(b.bn_stddivs) > Len(b.biases)
  \/ Len(b.biases) > Len(b.bn_gammas)
  \/ Len(b.biases) > Len(b.bn_means)
  \/ Len(b.biases) > Len(b.bn_betas)

FoldBNDivByZero(b, filterSize) == Len(b.biases) * (filterSize * filterSize) = 0

FoldBNUndefined(b, filterSize) == FoldBNOutOfBounds(b) \/ FoldBNDivByZero(b, filterSize)

(* --------------------------- the state machine ------------------------- *)
NoCall == [op |-> "none", filterSize |-> 0, pre |-> EmptyBlock]

Init ==
  /\ pb \in Serialized
  /\ pc = "raw"
  /\ block = EmptyBlock
  /\ ret = <<>>
  /\ last = NoCall
  /\ folds = 0

Construct ==
  /\ pc = "raw"
  /\ block' = ConvBlock(pb)
  /\ pc' = "unfolded"
  /\ last' = [op |-> "ConvBlock", filterSize |-> 0, pre |-> pb]
  /\ pb' = EmptyBlock
  /\ UNCHANGED <<ret, folds>>

Live == pc \in {"unfolded", "folded"}

CallGetInvertedStddev ==
  /\ Live
  /\ LET r == GetInvertedStddev(block)
     IN  block' = r.self /\ ret' = r.ret
  /\ last' = [op |-> "GetInvertedStddev", filterSize |-> 0, pre |-> block]
  /\ UNCHANGED <<pb, pc, folds>>

CallGetOffsetMeans ==
  /\ Live
  /\ last' = [op |-> "GetOffsetMeans", filterSize |-> 0, pre |-> block]
  /\ \/ /\ ~GetOffsetMeansUndefined(block)
        /\ LET r == GetOffsetMeans(block, Zero)
           IN  block' = r.self /\ ret' = r.ret
        /\ UNCHANGED pc
     \/ /\ GetOffsetMeansUndefined(block)
        /\ \E g \in Garbage :
             LET r == GetOffsetMeans(block, g)
             IN  block' = r.self /\ ret' = r.ret
        /\ pc' = "undefined"
     \/ /\ GetOffsetMeansUndefined(block)
        /\ pc' = "fault"
        /\ UNCHANGED <<block, ret>>
  /\ UNCHANGED <<pb, folds>>

CallFoldBN(filterSize) ==
  /\ Live
  /\ folds < MaxFolds
  /\ folds' = folds + 1
  /\ last' = [op |-> "FoldBN", filterSize |-> filterSize, pre |-> block]
  /\ ret' = <<>>
  /\ \/ /\ ~FoldBNUndefined(block, filterSize)
        /\ block' = FoldBN(block, filterSize, Zero)
        /\ pc' = "folded"
     \/ /\ FoldBNUndefined(block, filterSize)
        /\ \E g \in Garbage : block' = FoldBN(block, filterSize, g)
        /\ pc' = "undefined"
     \/ /\ FoldBNUndefined(block, filterSize)
        /\ pc' = "fault"
        /\ UNCHANGED block
  /\ UNCHANGED pb

Next ==
  \/ Construct
  \/ CallGetInvertedStddev
  \/ CallGetOffsetMeans
  \/ \E filterSize \in 0..MaxFilter : CallFoldBN(filterSize)

Spec == Init /\ [][Next]_vars

(* =============================== claims ================================ *)
Lengths(b) == [f \in Fields |-> Len(b[f])]

SameLengths(b) ==
  /\ Len(b.biases) = Len(b.bn_gammas)
  /\ Len(b.bn_gammas) = Len(b.bn_betas)
  /\ Len(b.bn_betas) = Len(b.bn_means)
  /\ Len(b.bn_means) = Len(b.bn_stddivs)

All(vec, v) == \A i \in 1..Len(vec) : vec[i] = v

Constructed == last.op = "ConvBlock"
Folded == last.op = "FoldBN" /\ pc = "folded"
\* FoldBN came back: with every step defined, or past an undefined one.
FoldReturned == last.op = "FoldBN" /\ pc \in {"folded", "undefined"}

(* C1: a serialized block whose bn_betas is empty is constructed with       *)
(* bn_betas, bn_gammas and bn_means all of the length n of the serialized   *)
(* bn_means, every beta 0.0 and every gamma 1.0, whatever the other fields  *)
(* hold (a non-empty bn_gammas included).                                   *)
C1_EmptyBetasGetNeutralScaleShift ==
  (Constructed /\ Len(last.pre.bn_betas) = 0) =>
     /\ Len(block.bn_betas) = Len(last.pre.bn_means)
     /\ Len(block.bn_gammas) = Len(last.pre.bn_means)
     /\ Len(block.bn_means) = Len(last.pre.bn_means)
     /\ All(block.bn_betas, Zero)
     /\ All(block.bn_gammas, One)

(* C2: a serialized block whose biases is empty is constructed with one     *)
(* bias 0.0 for each of the n elements of bn_means, whether or not the      *)
(* bn_betas default was applied as well.                                    *)
C2_EmptyBiasesGetZeros ==
  (Constructed /\ Len(last.pre.biases) = 0) =>
     /\ Len(block.biases) = Len(last.pre.bn_means)
     /\ All(block.biases, Zero)

C2_Witness ==
  /\ Constructed
  /\ Len(last.pre.biases) = 0
  /\ Len(last.pre.bn_betas) = 0
  /\ Len(last.pre.bn_means) = 2
  /\ block.biases = <<Zero, Zero>>

(* C3: construction never yields a block whose five per-channel vectors     *)
(* differ in length: an input the defaults cannot repair is refused.        *)
C3_ConstructedLengthsAgree == Constructed => SameLengths(block)

(* C4: GetInvertedStddev() and GetOffsetMeans() leave every field of the    *)
(* block as it was before the call, in the unfolded and the folded state.   *)
C4_AccessorsLeaveBlockUnchanged ==
  (last.op \in {"GetInvertedStddev", "GetOffsetMeans"}) => block = last.pre

C4_Witness ==
  /\ last.op = "GetInvertedStddev"
  /\ folds = 1
  /\ Len(ret) = 2
  /\ ret # block.bn_stddivs

\* len(weights) is an exact multiple of len(biases) * filterSize^2
ExactMultiple(b, filterSize) ==
  \E k \in 0..Len(b.weights) :
     Len(b.weights) = k * (Len(b.biases) * filterSize * filterSize)

(* C5: FoldBN called with a weight count that is no exact multiple of       *)
(* len(biases) * filterSize^2 fails with PreconditionError and leaves every *)
(* field unchanged (stated on the calls whose every step is defined).       *)
C5_IndivisibleFoldRejected ==
  (/\ last.op = "FoldBN"
   /\ ~FoldBNUndefined(last.pre, last.filterSize)
   /\ ~ExactMultiple(last.pre, last.filterSize)) =>
     /\ pc = "PreconditionError"
     /\ block = last.pre

(* C6: after FoldBN returns on a constructed block, every stddiv is 1.0,    *)
(* every mean 0.0 and every beta 0.0, and no vector has changed its length. *)
C6_FoldNeutralisesStatistics ==
  Folded =>
     /\ All(block.bn_stddivs, One)
     /\ All(block.bn_means, Zero)
     /\ All(block.bn_betas, Zero)
     /\ Lengths(block) = Lengths(last.pre)

RECURSIVE SumTo(_, _)
SumTo(f, n) == IF n = 0 THEN Zero ELSE Add(SumTo(f, n - 1), f[n])

\* conv(weights, x)_o: the weights of output channel o (from 0), laid out
\* [o][c][p], applied to the input x laid out [c][p].
Conv(weights, x, o, inputs, spatialSize) ==
  SumTo([q \in 1..(inputs * spatialSize) |->
           Mul(weights[o * inputs * spatialSize + q], x[q])],
        inputs * spatialSize)

SampleInputs(n) == [1..n -> {One, Q(-2, 1)}]

(* C7: on a block with equal per-channel lengths and len(weights) =         *)
(* outputs * inputs * filterSize^2, FoldBN yields, with k = 1/sqrt(stddev + *)
(* eps): gamma' = gamma * k, weights'[o,c,p] = weights[o,c,p] * gamma'_o,   *)
(* bias' = -gamma' * (mean - bias) + beta; and so for every input x,        *)
(* conv(weights', x)_o + bias'_o =                                          *)
(* ((conv(weights, x)_o + bias_o) - mean_o) * k_o * gamma_o + beta_o.       *)
C7_FoldingIdentity ==
  LET old == last.pre
      outputs == Len(old.biases)
      spatialSize == last.filterSize * last.filterSize
      inputs == Inputs(Len(old.weights), outputs, spatialSize)
  IN  (/\ FoldReturned
       /\ SameLengths(old)
       /\ Len(old.weights) = outputs * inputs * spatialSize) =>
         \A o \in 0..(outputs - 1) :
           LET k == InvSqrt(At0(old.bn_stddivs, o))
               gamma2 == Mul(At0(old.bn_gammas, o), k)
           IN  /\ At0(block.bn_gammas, o) = gamma2
               /\ \A c \in 0..(inputs - 1), p \in 0..(spatialSize - 1) :
                    LET j == o * inputs * spatialSize + c * spatialSize + p
                    IN  At0(block.weights, j) = Mul(At0(old.weights, j), gamma2)
               /\ At0(block.biases, o) =
                    Add(Mul(Neg(gamma2), Sub(At0(old.bn_means, o), At0(old.biases, o))),
                        At0(old.bn_betas, o))
               /\ \A x \in SampleInputs(inputs * spatialSize) :
                    Add(Conv(block.weights, x, o, inputs, spatialSize),
                        At0(block.biases, o))
                    = Add(Mul(Mul(Sub(Add(Conv(old.weights, x, o, inputs, spatialSize),
                                          At0(old.biases, o)),
                                      At0(old.bn_means, o)),
                                  k),
                              At0(old.bn_gammas, o)),
                          At0(old.bn_betas, o))

\* The worked example: weight 2, bias 1, gamma 3, beta 0.5, mean 4, k = 1/3
\* fold to gamma' = 1, weight' = 2, bias' = -2.5.
C7_Witness ==
  /\ Folded
  /\ last.filterSize = 1
  /\ last.pre = [weights |-> <<Q(2, 1)>>, biases |-> <<Q(1, 1)>>,
                 bn_gammas |-> <<Q(3, 1)>>, bn_betas |-> <<Q(1, 2)>>,
                 bn_means |-> <<Q(4, 1)>>,
                 bn_stddivs |-> <<Sub(Q(9, 1), kEpsilon)>>]
  /\ InvSqrt(last.pre.bn_stddivs[1]) = Q(1, 3)
  /\ block.bn_gammas = <<One>>
  /\ block.weights = <<Q(2, 1)>>
  /\ block.biases = <<Q(-5, 2)>>

(* C8 as stated: FoldBN on an already-folded block is a no-op.              *)
C8_RefoldIsNoOp == (Folded /\ folds >= 2) => block = last.pre

(* C8 as amended: FoldBN on an already-folded block leaves bn_stddivs,      *)
(* bn_means, bn_betas and every length as they were, and is no no-op on the *)
(* rest: for i < len(bn_stddivs), gamma_i is multiplied by 1/sqrt(1 + eps)  *)
(* and bias_i becomes gamma_i * bias_i; every weight the loops reach is     *)
(* multiplied by its channel's gamma once more.                             *)
C8_RefoldRescales ==
  LET old == last.pre
      outputs == Len(old.biases)
      spatialSize == last.filterSize * last.filterSize
      inputs == Inputs(Len(old.weights), outputs, spatialSize)
  IN  (FoldReturned /\ folds >= 2) =>
        /\ block.bn_stddivs = old.bn_stddivs
        /\ block.bn_means = old.bn_means
        /\ block.bn_betas = old.bn_betas
        /\ Lengths(block) = Lengths(old)
        /\ \A i \in 1..Len(old.bn_stddivs) :
             /\ block.bn_gammas[i] = Mul(old.bn_gammas[i], InvSqrt(One))
             /\ block.biases[i] = Mul(block.bn_gammas[i], old.biases[i])
        /\ \A o \in 0..(outputs - 1), c \in 0..(inputs - 1), p \in 0..(spatialSize - 1) :
             LET j == o * inputs * spatialSize + c * spatialSize + p
             IN  At0(block.weights, j) = Mul(At0(old.weights, j), At0(block.bn_gammas, o))

C8_Witness ==
  /\ Folded
  /\ folds = 2
  /\ Len(block.bn_stddivs) = 2
  /\ Len(block.weights) = 4
  /\ block.bn_gammas # last.pre.bn_gammas
  /\ block.weights # last.pre.weights
  /\ block.biases # last.pre.biases

(* C9 as stated: once the block is folded, GetInvertedStddev() returns the  *)
(* identity scale 1.0 and GetOffsetMeans() the identity offset 0.0 for      *)
(* every channel.                                                           *)
C9_FoldedAccessorsReturnIdentity ==
  (folds >= 1 /\ pc = "folded") =>
     /\ last.op = "GetInvertedStddev" => All(ret, One)
     /\ last.op = "GetOffsetMeans" => All(ret, Zero)

(* C9 as amended: once the block is folded, GetInvertedStddev() returns     *)
(* 1/sqrt(1 + eps) for every channel, which is not 1.0, and                 *)
(* GetOffsetMeans() returns 0.0 - bias_i, the negated folded bias, for      *)
(* every channel i < len(biases).                                           *)
C9_FoldedAccessorsReturn ==
  (folds >= 1 /\ pc \in {"folded", "undefined"}) =>
     /\ last.op = "GetInvertedStddev" =>
          /\ Len(ret) = Len(block.bn_stddivs)
          /\ All(ret, Kappa)
          /\ Kappa # One
     /\ last.op = "GetOffsetMeans" =>
          /\ Len(ret) = Len(block.bn_means)
          /\ \A i \in 1..Min(Len(ret), Len(block.biases)) : ret[i] = Neg(block.biases[i])

C9_Witness ==
  /\ folds >= 1
  /\ pc = "folded"
  /\ last.op = "GetOffsetMeans"
  /\ Len(ret) = 2
  /\ ret[1] # Zero
  /\ ret[2] # Zero

(* C10: FoldBN on a constructed block reads and writes every vector inside  *)
(* its bounds and never divides by zero, for every filterSize >= 0.         *)
C10_FoldIsFaultFree ==
  (last.op = "FoldBN") =>
     /\ ~FoldBNOutOfBounds(last.pre)
     /\ ~FoldBNDivByZero(last.pre, last.filterSize)

====
